---- MODULE Spec2Model ----
(***************************************************************************)
(* A model of the enhanced_enum! macro (src/src/lib.rs): the enumeration   *)
(* it generates (count, iter, to_str, Display, the TryFrom conversions)    *)
(* and the array type keyed by that enumeration (new, new_with, map,       *)
(* contains, Index, IndexMut, Clone, PartialEq, Hash).                     *)
(*                                                                         *)
(* Strings are sequences of one-character strings.  Unsigned integers are  *)
(* big-endian sequences of 16-bit limbs (u32: 2 limbs, u64: 4 limbs,       *)
(* usize: 2 or 4 limbs by target), so that values beyond 32 bits exist.    *)
(***************************************************************************)
EXTENDS Integers, Sequences, FiniteSets, TLC

VARIABLES variants, build, res, arr, other, ghost

vars == <<variants, build, res, arr, other, ghost>>

\* Largest number of variants in a macro invocation of the model.
MaxN == 2

(***************************************************************************)
(* The macro's input: identifiers                                          *)
(***************************************************************************)

\* An identifier token as the macro receives it ($variants:ident): its name
\* and whether it was written raw (r#name).
Foo == [raw |-> FALSE, name |-> <<"F", "o", "o">>]

Bar == [raw |-> FALSE, name |-> <<"B", "a", "r">>]

\* `type` is a keyword: as a variant name it can only be written r#type.
RawType == [raw |-> TRUE, name |-> <<"t", "y", "p", "e">>]

Idents == {Foo, Bar, RawType}

\* The variant lists an invocation can pass: pairwise distinct identifiers.
VariantLists ==
    {vs \in UNION {[1..n -> Idents] : n \in 0..MaxN} :
        \A i, j \in DOMAIN vs : i # j => vs[i].name # vs[j].name}

\* The builds of one program: cfg!(debug_assertions), arithmetic overflow
\* checks, and the number of 16-bit limbs of usize (32- or 64-bit target).
Builds ==
    [debug_assertions : BOOLEAN, overflow_checks : BOOLEAN, usize_limbs : {2, 4}]

(***************************************************************************)
(* Results                                                                 *)
(***************************************************************************)

Ok(v) == [kind |-> "Ok", val |-> v]

Err(msg) == [kind |-> "Err", val |-> msg]

Panic(msg) == [kind |-> "Panic", val |-> msg]

(***************************************************************************)
(* Unsigned integers                                                       *)
(***************************************************************************)

LimbBase == 2 ^ 16

LimbMax == LimbBase - 1

\* The w-limb integer of a number below LimbBase.
Word(n, w) == [i \in 1..w |-> IF i = w THEN n ELSE 0]

\* The largest w-limb integer (u32::MAX, u64::MAX, usize::MAX).
WordMax(w) == [i \in 1..w |-> LimbMax]

\* u32::try_from(value) of the standard library, as lines 162 and 170 call it:
\* fails unless every limb above the low two is zero.
u32_try_from(value) ==
    LET w == Len(value)
    IN  IF \A i \in 1..(w - 2) : value[i] = 0
        THEN Ok(<<value[w - 1], value[w]>>)
        ELSE Err("TryFromIntError")

\* The number of a small integer (every limb but the last zero).
ToNat(value) == value[Len(value)]

IsSmall(value) == \A i \in 1..(Len(value) - 1) : value[i] = 0

(***************************************************************************)
(* The enumeration                                                         *)
(***************************************************************************)

\* count!: one per identifier, recursively.
RECURSIVE count_macro(_)
count_macro(xs) == IF xs = <<>> THEN 0 ELSE 1 + count_macro(Tail(xs))

count(vs) == count_macro(vs)

len(vs) == count(vs)

is_empty(vs) == len(vs) = 0

\* The discriminant the compiler gives a fieldless variant: its position in
\* the declaration, from 0.
Discriminant(vs, v) == (CHOOSE i \in 1..Len(vs) : vs[i] = v) - 1

\* `v as usize`, `v as u32`: the discriminant in the target width.
as_usize(vs, b, v) == Word(Discriminant(vs, v), b.usize_limbs)

as_u32(vs, v) == Word(Discriminant(vs, v), 2)

\* The arms `_ if x == $name::$variants as ... => ...` tried in declaration
\* order: guards[i] is the guard of the i-th arm; the index of the first arm
\* whose guard holds, from arm i on, 0 when none does.
RECURSIVE FirstArmFrom(_, _)
FirstArmFrom(guards, i) ==
    IF i > Len(guards) THEN 0
    ELSE IF guards[i] THEN i
    ELSE FirstArmFrom(guards, i + 1)

FirstArm(guards) == FirstArmFrom(guards, 1)

\* stringify!($variants): the token as written, r# included.
stringify(tok) == IF tok.raw THEN <<"r", "#">> \o tok.name ELSE tok.name

\* derive(Debug): writes the variant's name; a raw identifier's name has no r#.
DebugFmt(v) == v.name

to_str(vs, v) ==
    LET arm == FirstArm([i \in DOMAIN vs |-> vs[i] = v]) IN stringify(vs[arm])

\* Display::fmt is write!(f, "{:?}", self); to_string() collects it.
to_string(v) == DebugFmt(v)

\* `$name::count() - 1` on usize.
count_minus_one(vs, b) ==
    IF count(vs) = 0
    THEN IF b.overflow_checks
         THEN Panic("attempt to subtract with overflow")
         ELSE Ok(WordMax(b.usize_limbs))
    ELSE Ok(Word(count(vs) - 1, b.usize_limbs))

\* match_u32 with the arms guarded by the position from 1.
match_u32_from_one(vs, value) ==
    LET arm == FirstArm([i \in DOMAIN vs |-> value = Word(Discriminant(vs, vs[i]) + 1, 2)])
    IN  IF arm = 0 THEN Err("Bad enum discriminant!") ELSE Ok(vs[arm])

match_u32(vs, value) ==
    LET arm == FirstArm([i \in DOMAIN vs |-> value = as_u32(vs, vs[i])])
    IN  IF arm = 0 THEN Err("Bad enum discriminant!") ELSE Ok(vs[arm])

try_from_u32(vs, b, value) ==
    IF b.debug_assertions
    THEN LET last == count_minus_one(vs, b)
         IN  IF last.kind = "Panic" THEN last
             ELSE IF u32_try_from(last.val).kind = "Err"
                  THEN Panic("Too many enum variants to fit inside a u32!")
                  ELSE match_u32(vs, value)
    ELSE match_u32(vs, value)

\* The panic of Result::unwrap on the Err of u32::try_from.
unwrap_failed == Panic("called Result::unwrap() on an Err value")

try_from_u64(vs, b, value) ==
    LET narrow == u32_try_from(value)
    IN  IF narrow.kind = "Ok" THEN try_from_u32(vs, b, narrow.val) ELSE unwrap_failed

try_from_usize(vs, b, value) ==
    LET narrow == u32_try_from(value)
    IN  IF narrow.kind = "Ok" THEN try_from_u32(vs, b, narrow.val) ELSE unwrap_failed

try_from_str(vs, value) ==
    LET arm == FirstArm([i \in DOMAIN vs |-> value = to_string(vs[i])])
    IN  IF arm = 0 THEN Err("Unrecognized variant name!") ELSE Ok(vs[arm])

\* One item of iter(): the closure's match on x.
iter_item(vs, b, x) ==
    LET arm == FirstArm([i \in DOMAIN vs |-> x = as_usize(vs, b, vs[i])])
    IN  IF arm = 0 THEN Panic("explicit panic") ELSE Ok(vs[arm])

\* iter over 0..=count().
iter_inclusive(vs, b) ==
    LET items == [k \in 1..(count(vs) + 1) |->
                    iter_item(vs, b, Word(k - 1, b.usize_limbs))]
    IN  IF \E k \in DOMAIN items : items[k].kind = "Panic"
        THEN Panic("explicit panic")
        ELSE Ok([k \in DOMAIN items |-> items[k].val])

\* iter() run to its end: (0..count()).map(...) collected, or its panic.
iter(vs, b) ==
    LET items == [k \in 1..count(vs) |-> iter_item(vs, b, Word(k - 1, b.usize_limbs))]
    IN  IF \E k \in DOMAIN items : items[k].kind = "Panic"
        THEN Panic("explicit panic")
        ELSE Ok([k \in DOMAIN items |-> items[k].val])

(***************************************************************************)
(* Inputs                                                                  *)
(***************************************************************************)

SmallNats == 0..(MaxN + 1)

U32Inputs ==
    {Word(n, 2) : n \in SmallNats} \cup {<<0, LimbMax>>, <<1, 0>>, <<1, 1>>, WordMax(2)}

\* Every u32 input widened, 2^32, 2^32 + 1 (low 32 bits: 1), and u64::MAX.
U64Inputs ==
    {<<0, 0>> \o x : x \in U32Inputs} \cup {<<0, 1, 0, 0>>, <<0, 1, 0, 1>>, WordMax(4)}

UsizeInputs(b) == IF b.usize_limbs = 2 THEN U32Inputs ELSE U64Inputs

StrInputs ==
    {<<>>, Foo.name, Bar.name, RawType.name, stringify(RawType),
     <<"f", "o", "o">>, <<" ", "F", "o", "o">>, <<"F", "o", "o", " ">>, <<"F", "o">>}

(***************************************************************************)
(* Calls on the enumeration: each records the call and what it returned    *)
(***************************************************************************)

NoCall == [op |-> "none"]

InitArrayVars ==
    /\ arr = [state |-> "none"]
    /\ other = [state |-> "none"]
    /\ ghost = [state |-> "none"]

Init ==
    /\ variants \in VariantLists
    /\ build \in Builds
    /\ res = NoCall
    /\ InitArrayVars

Return(op, arg, out) ==
    /\ res' = [op |-> op, arg |-> arg, out |-> out]
    /\ UNCHANGED <<variants, build, arr, other, ghost>>

CallCount == Return("count", <<>>, count(variants))

CallIter == Return("iter", <<>>, iter(variants, build))

CallToStr ==
    \E i \in DOMAIN variants : Return("to_str", variants[i], to_str(variants, variants[i]))

CallToString ==
    \E i \in DOMAIN variants : Return("to_string", variants[i], to_string(variants[i]))

CallAsUsize ==
    \E i \in DOMAIN variants :
        Return("as_usize", variants[i], as_usize(variants, build, variants[i]))

CallTryFromU32 ==
    \E value \in U32Inputs : Return("try_from_u32", value, try_from_u32(variants, build, value))

CallTryFromU64 ==
    \E value \in U64Inputs : Return("try_from_u64", value, try_from_u64(variants, build, value))

CallTryFromUsize ==
    \E value \in UsizeInputs(build) :
        Return("try_from_usize", value, try_from_usize(variants, build, value))

CallTryFromStr ==
    \E value \in StrInputs : Return("try_from_str", value, try_from_str(variants, value))

Next ==
    \/ CallCount
    \/ CallIter
    \/ CallToStr
    \/ CallToString
    \/ CallAsUsize
    \/ CallTryFromU32
    \/ CallTryFromU64
    \/ CallTryFromUsize
    \/ CallTryFromStr

Spec == Init /\ [][Next]_vars


(***************************************************************************)
(* The element type T of the arrays of the model                           *)
(***************************************************************************)

\* A float-like element, as the test's f64 (7.0, NaN) and integers (51).
Float(x) == [nan |-> FALSE, val |-> x]

NaN == [nan |-> TRUE, val |-> 0]

Elems == {Float(7), Float(51), NaN}

\* T's PartialEq: NaN equals nothing, itself included.
elem_eq(x, y) == ~x.nan /\ ~y.nan /\ x.val = y.val

\* T's Clone.
elem_clone(x) == x

\* What T's Hash feeds the hasher.
elem_hash(x) == <<x.nan, x.val>>

(***************************************************************************)
(* The array keyed by the enumeration                                      *)
(***************************************************************************)

Keys(vs) == {vs[i] : i \in DOMAIN vs}

Initializers(vs) == [Keys(vs) -> Elems]

\* The functions map is called with, into a two-valued Q.
Mappers == [Elems -> {Float(7), NaN}]

\* The slot of a key: `x as usize`, as an index from 1.
Slot(vs, b, x) == ToNat(as_usize(vs, b, x)) + 1

\* Index::index: &self.data[x as usize].
index(vs, b, data, x) == data[Slot(vs, b, x)]

\* index_mut that always borrows the first slot.
index_mut_first_slot(vs, b, data, x, value) == [data EXCEPT ![1] = value]

\* IndexMut::index_mut followed by the assignment through the reference.
index_mut(vs, b, data, x, value) == [data EXCEPT ![Slot(vs, b, x)] = value]

\* The loop of new_with from slot idx (from 0) on.  data holds the slots
\* written so far and no others: the rest of the storage is uninitialized.
\* calls lists the arguments the initializer was called with.  panic_at is
\* the call (from 0) in which the initializer panics, count(vs) when it
\* returns every time.
RECURSIVE new_with_loop(_, _, _, _, _, _, _)
new_with_loop(vs, b, f, panic_at, idx, data, calls) ==
    IF idx >= count(vs)
    THEN [status |-> "returned", data |-> data, calls |-> calls]
    ELSE LET key == try_from_usize(vs, b, Word(idx, b.usize_limbs))
         IN  IF key.kind # "Ok"
             THEN [status |-> "panicked", data |-> data, calls |-> calls]
             ELSE IF panic_at = idx
                  THEN [status |-> "panicked", data |-> data,
                        calls |-> Append(calls, key.val)]
                  ELSE new_with_loop(vs, b, f, panic_at, idx + 1,
                                     data @@ ((idx + 1) :> f[key.val]),
                                     Append(calls, key.val))

\* new_with that passes the first variant to every call of the initializer.
new_with_first_key(vs, b, f, panic_at) ==
    new_with_loop(vs, b, [x \in Keys(vs) |-> f[vs[1]]], panic_at, 0, <<>>, <<>>)

new_with(vs, b, f, panic_at) == new_with_loop(vs, b, f, panic_at, 0, <<>>, <<>>)

\* new: new_with(|_| initial_value.clone()).
new(vs, b, initial_value) ==
    new_with(vs, b, [x \in Keys(vs) |-> elem_clone(initial_value)], count(vs))

\* map that copies the elements and never applies f.
map_unapplied(vs, b, data, f) ==
    new_with(vs, b, [x \in Keys(vs) |-> index(vs, b, data, x)], count(vs))

\* map: new_with(|x| f(&self[x])).
map(vs, b, data, f) ==
    new_with(vs, b, [x \in Keys(vs) |-> f[index(vs, b, data, x)]], count(vs))

\* contains: self.data.contains(x), the slice's search by ==.
contains(data, x) == \E i \in DOMAIN data : elem_eq(data[i], x)

\* Clone::clone: self.data.clone(), element by element.
clone(data) == [i \in DOMAIN data |-> elem_clone(data[i])]

\* eq that compares the representations instead of calling T's ==.
eq_bitwise(data, other_data) == data = other_data

\* PartialEq::eq: self.data == other.data, element by element.
eq(data, other_data) ==
    /\ Len(data) = Len(other_data)
    /\ \A i \in DOMAIN data : elem_eq(data[i], other_data[i])

\* Hash::hash: self.data.hash(state); an array hashes as its slice, the
\* length first and then each element in slot order.
hash(data) == <<Len(data)>> \o [i \in DOMAIN data |-> elem_hash(data[i])]

(***************************************************************************)
(* Unwinding out of new_with                                               *)
(***************************************************************************)

\* When the initializer panics, the local `data: [T; N]` is dropped during
\* unwinding: T's drop glue runs on the slots in ascending order, written
\* or not.  On a slot that was never written the glue reads uninitialized
\* memory: it may return or fault, and a fault ends the process there.
\* stop is the slot (from 1) on which the glue faults, count + 1 when none.
\* The result counts the runs of the glue on each slot.
unwind_drops(n, stop) ==
    [i \in 1..n |-> IF i <= stop THEN 1 ELSE 0]

\* The slots a fault can happen on: the unwritten ones.
UnwindStops(n, written) == {i \in 1..(n + 1) : i \notin written}


(***************************************************************************)
(* Calls on the arrays                                                     *)
(*   arr    the array a, or what is left of a failed construction          *)
(*   ghost  how a came to be: its initializer, the initializer's calls,    *)
(*          and the last value written under each key since                *)
(*   other  a second array b and the call that made it                     *)
(***************************************************************************)

\* The outcome r of new_with(f) becomes a; the arrays held before are dropped.
Construct(f, r) ==
    /\ other' = [state |-> "none"]
    /\ ghost' = [state |-> "built", init |-> f, calls |-> r.calls, last |-> <<>>]
    /\ IF r.status = "returned"
       THEN arr' = [state |-> "live", data |-> r.data]
       ELSE \E stop \in UnwindStops(count(variants), DOMAIN r.data) :
                arr' = [state |-> "unwound", written |-> DOMAIN r.data,
                        drops |-> unwind_drops(count(variants), stop)]
    /\ UNCHANGED <<variants, build, res>>

\* a = new_with(f), with an initializer that may panic in any of its calls.
NewWith ==
    \E f \in Initializers(variants), panic_at \in 0..count(variants) :
        \E r \in {new_with(variants, build, f, panic_at)} : Construct(f, r)

\* a = new_with(f), with an initializer that returns every time.
NewWithReturning ==
    \E f \in Initializers(variants) :
        \E r \in {new_with(variants, build, f, count(variants))} : Construct(f, r)

\* a = new(value).
New ==
    \E value \in Elems :
        \E r \in {new(variants, build, value)} :
            Construct([x \in Keys(variants) |-> value], r)

\* a[x] = value.
IndexMut ==
    /\ arr.state = "live"
    /\ \E i \in DOMAIN variants, value \in Elems :
        /\ arr' = [arr EXCEPT !.data = index_mut(variants, build, @, variants[i], value)]
        /\ ghost' = [ghost EXCEPT !.last = (variants[i] :> value) @@ @]
    /\ UNCHANGED <<variants, build, res, other>>

\* b = new_with(g), with an initializer that returns every time.
OtherNewWith ==
    /\ \E g \in Initializers(variants) :
        \E r \in {new_with(variants, build, g, count(variants))} :
            /\ r.status = "returned"
            /\ other' = [state |-> "live", data |-> r.data,
                         from |-> [op |-> "new_with", f |-> g, calls |-> r.calls]]
    /\ UNCHANGED <<variants, build, res, arr, ghost>>

\* b = a.clone().
Clone ==
    /\ arr.state = "live"
    /\ other' = [state |-> "live", data |-> clone(arr.data),
                 from |-> [op |-> "clone", src |-> arr.data]]
    /\ UNCHANGED <<variants, build, res, arr, ghost>>

\* b = a.map(g).
Map ==
    /\ arr.state = "live"
    /\ \E g \in Mappers :
        \E r \in {map(variants, build, arr.data, g)} :
            /\ r.status = "returned"
            /\ other' = [state |-> "live", data |-> r.data,
                         from |-> [op |-> "map", f |-> g, src |-> arr.data,
                                   calls |-> r.calls]]
    /\ UNCHANGED <<variants, build, res, arr, ghost>>

\* The arrays never read a variant's name, only its discriminant: one
\* enumeration of each size is taken, under every build.
DeclaredOrder == <<Foo, Bar, RawType>>

InitArray ==
    /\ variants \in {vs \in VariantLists : \A i \in DOMAIN vs : vs[i] = DeclaredOrder[i]}
    /\ build \in Builds
    /\ res = NoCall
    /\ InitArrayVars

\* Construction and keyed writes.
NextArray ==
    \/ NewWith
    \/ New
    \/ IndexMut

SpecArray == InitArray /\ [][NextArray]_vars

\* Two arrays: construction, clone, map.
NextPair ==
    \/ NewWithReturning
    \/ New
    \/ OtherNewWith
    \/ Clone
    \/ Map

SpecPair == InitArray /\ [][NextPair]_vars


(***************************************************************************)
(* Properties of the enumeration (specification Spec)                      *)
(***************************************************************************)

IntConversions == {"try_from_u32", "try_from_u64", "try_from_usize"}

\* The integer names a variant: 0 <= value < N.
InRange(value) == IsSmall(value) /\ ToNat(value) < count(variants)

\* C2: try_from for u32, u64 and usize returns Ok exactly for 0 <= index < N
\* and returns the error, never a panic and never a variant, for every other
\* integer, those beyond 32 bits included.
C2_IntConversionIsRecoverable ==
    res.op \in IntConversions =>
        IF InRange(res.arg) THEN res.out.kind = "Ok" ELSE res.out.kind = "Err"

\* C3: the cast and the conversion are inverses: for i in [0, N) the variant
\* try_from(i) gives casts back to i, and for a variant v try_from(v as usize)
\* is Ok(v).
C3_RoundTrip ==
    /\ (res.op \in IntConversions /\ InRange(res.arg)) =>
            /\ res.out.kind = "Ok"
            /\ ToNat(as_usize(variants, build, res.out.val)) = ToNat(res.arg)
            /\ IsSmall(as_usize(variants, build, res.out.val))
    /\ res.op = "as_usize" =>
            LET back == try_from_usize(variants, build, res.out)
            IN  back.kind = "Ok" /\ back.val = res.arg

\* A conversion of the index 1 succeeded.
C3_Witness ==
    /\ res.op = "try_from_u64"
    /\ ToNat(res.arg) = 1
    /\ res.out.kind = "Ok"

\* C5: try_from(&str) is Ok(v) exactly when the input equals to_str(v), and
\* the error for every other string; to_string(v) equals to_str(v); to_str
\* is injective.
C5_StrConversionMatchesToStr ==
    /\ res.op = "try_from_str" =>
            IF \E i \in DOMAIN variants : res.arg = to_str(variants, variants[i])
            THEN res.out.kind = "Ok" /\ to_str(variants, res.out.val) = res.arg
            ELSE res.out.kind = "Err"
    /\ res.op = "to_string" => res.out = to_str(variants, res.arg)
    /\ \A i, j \in DOMAIN variants :
            to_str(variants, variants[i]) = to_str(variants, variants[j]) => i = j

\* C6: iter() yields exactly N items, the k-th (from 0) the variant of index
\* k, so each variant once and in ascending order, and does not panic.
C6_IterYieldsEveryVariantInOrder ==
    res.op = "iter" =>
        /\ res.out.kind = "Ok"
        /\ Len(res.out.val) = count(variants)
        /\ \A k \in DOMAIN res.out.val :
                Discriminant(variants, res.out.val[k]) = k - 1
        /\ \A i \in DOMAIN variants :
                Cardinality({k \in DOMAIN res.out.val : res.out.val[k] = variants[i]}) = 1

\* iter() ran over an enumeration of two variants or more.
C6_Witness ==
    /\ res.op = "iter"
    /\ count(variants) >= 2
    /\ res.out.kind = "Ok"

C1_NewWithStoresInitializerResults ==
    arr.state = "live" =>
        /\ Len(ghost.calls) = count(variants)
        /\ \A k \in DOMAIN ghost.calls :
                Discriminant(variants, ghost.calls[k]) = k - 1
        /\ DOMAIN ghost.last = {} =>
                \A v \in Keys(variants) :
                    index(variants, build, arr.data, v) = ghost.init[v]

\* new_with returned an array of two slots or more whose initializer gave
\* the first two variants different values.
C1_Witness ==
    /\ arr.state = "live"
    /\ count(variants) >= 2
    /\ DOMAIN ghost.last = {}
    /\ ghost.init[variants[1]] # ghost.init[variants[2]]
    /\ arr.data[2] = ghost.init[variants[2]]

\* C4: when the initializer panics in its k-th call, the k slots written are
\* destroyed once each and no slot that was never written is destroyed or
\* read.
C4_UnwindDestroysOnlyWrittenSlots ==
    arr.state = "unwound" =>
        \A i \in DOMAIN arr.drops :
            arr.drops[i] = IF i \in arr.written THEN 1 ELSE 0

\* C10: a[v] reads the value last written under v, or the initial value of v
\* when none was; a write under v changes no other slot; the length stays N;
\* and after new(7.0) and a[Foo] = NaN, contains(&7.0) holds and an element
\* is NaN.
C10_KeyedWritesAreFramed ==
    arr.state = "live" =>
        /\ Len(arr.data) = count(variants)
        /\ \A v \in Keys(variants) :
                index(variants, build, arr.data, v) =
                    IF v \in DOMAIN ghost.last THEN ghost.last[v] ELSE ghost.init[v]
        /\ ( /\ variants = <<Foo, Bar>>
             /\ \A v \in Keys(variants) : ghost.init[v] = Float(7)
             /\ DOMAIN ghost.last = {Foo}
             /\ ghost.last[Foo] = NaN )
           => /\ contains(arr.data, Float(7))
              /\ \E i \in DOMAIN arr.data : arr.data[i].nan

\* The scenario of the test: new(7.0), then a[Foo] = NaN.
C10_Witness ==
    /\ arr.state = "live"
    /\ variants = <<Foo, Bar>>
    /\ \A v \in Keys(variants) : ghost.init[v] = Float(7)
    /\ DOMAIN ghost.last = {Foo}
    /\ ghost.last[Foo] = NaN
    /\ arr.data = <<NaN, Float(7)>>

(***************************************************************************)
(* Properties of two arrays (specification SpecPair)                       *)
(***************************************************************************)

\* C7: b = new_with(f).map(g) reads g(f(v)) under every variant v, as
\* new_with(|v| g(&f(v))) does; g is applied once per slot in ascending
\* order; b has N slots; the source is as it was.
C7_MapLaw ==
    (other.state = "live" /\ other.from.op = "map") =>
        /\ Len(other.data) = count(variants)
        /\ \A v \in Keys(variants) :
                index(variants, build, other.data, v) = other.from.f[ghost.init[v]]
        /\ other.data =
                new_with(variants, build,
                         [v \in Keys(variants) |-> other.from.f[ghost.init[v]]],
                         count(variants)).data
        /\ Len(other.from.calls) = count(variants)
        /\ \A k \in DOMAIN other.from.calls :
                Slot(variants, build, other.from.calls[k]) = k
        /\ arr.data = other.from.src

\* map ran over two slots or more, gave two different results and changed
\* the first element.
C7_Witness ==
    /\ other.state = "live"
    /\ other.from.op = "map"
    /\ count(variants) >= 2
    /\ other.data[1] # other.data[2]
    /\ other.data[1] # arr.data[1]

\* C8: a = new_with(f) and b = new_with(g) are equal exactly when f(v) == g(v)
\* for every variant v; equal arrays hash alike; a clone equals its source
\* when the elements' equality is reflexive, and the source is as it was.
C8_EqualityHashClone ==
    /\ (arr.state = "live" /\ other.state = "live" /\ other.from.op = "new_with") =>
            /\ (eq(arr.data, other.data)
                    <=> (\A v \in Keys(variants) :
                            elem_eq(ghost.init[v], other.from.f[v])))
            /\ (eq(arr.data, other.data) => hash(arr.data) = hash(other.data))
    /\ (other.state = "live" /\ other.from.op = "clone") =>
            /\ ((\A i \in DOMAIN arr.data : elem_eq(arr.data[i], arr.data[i]))
                    => eq(other.data, arr.data))
            /\ arr.data = other.from.src

\* Two arrays of two slots or more, built apart, compare equal.
C8_Witness ==
    /\ arr.state = "live"
    /\ other.state = "live"
    /\ other.from.op = "new_with"
    /\ count(variants) >= 2
    /\ arr.data[1] # arr.data[2]
    /\ eq(arr.data, other.data)

====
